---- MODULE Spec2Model ----
(***************************************************************************)
(* crosscors: the CORS middleware of src/src/index.ts.                     *)
(*                                                                         *)
(* crosscors(options) builds one handleCors closure; the host server calls *)
(* it once per request with that request and a fresh response.  A call     *)
(* runs synchronously up to the await on matchOrigin, is suspended there   *)
(* (for a dynamic predicate that returned a promise: until the promise     *)
(* settles), and then runs to its return without further suspension.       *)
(*                                                                         *)
(* JavaScript strings are sequences of one-character strings, so that      *)
(* toUpperCase, join, String(n) and RegExp.prototype.test are computed.    *)
(***************************************************************************)
EXTENDS Naturals, Sequences, FiniteSets, TLC

\* ------------------------------------------------------------------------
\* Bounds of the model
\* ------------------------------------------------------------------------

\* Number of handleCors invocations the host makes on one middleware.
MaxCalls == 2

\* ------------------------------------------------------------------------
\* JavaScript values
\* ------------------------------------------------------------------------

\* An optional sequence-valued field (string or string[]): undefined or a value.
NoSeq == [def |-> FALSE, v |-> <<>>]
SomeSeq(s) == [def |-> TRUE, v |-> s]

\* An optional number.
NoNum == [def |-> FALSE, v |-> 0]
SomeNum(n) == [def |-> TRUE, v |-> n]

\* An optional boolean.
NoBool == [def |-> FALSE, v |-> FALSE]
SomeBool(b) == [def |-> TRUE, v |-> b]

\* A value a dynamic predicate can hand back at run time.
JsBool(b) == [t |-> "boolean", b |-> b, n |-> 0]
JsUndefined == [t |-> "undefined", b |-> FALSE, n |-> 0]
JsNumber(n) == [t |-> "number", b |-> FALSE, n |-> n]

\* ToBoolean, as applied by `!` and `if`.
Truthy(x) ==
  CASE x.t = "boolean" -> x.b
    [] x.t = "undefined" -> FALSE
    [] x.t = "number" -> x.n # 0

\* ToBoolean of an optional string: undefined and '' are falsy.
TruthyStr(o) == o.def /\ Len(o.v) > 0

\* ------------------------------------------------------------------------
\* String operations
\* ------------------------------------------------------------------------

LowerLetters ==
  << "a", "b", "c", "d", "e", "f", "g", "h", "i", "j", "k", "l", "m",
     "n", "o", "p", "q", "r", "s", "t", "u", "v", "w", "x", "y", "z" >>

UpperLetters ==
  << "A", "B", "C", "D", "E", "F", "G", "H", "I", "J", "K", "L", "M",
     "N", "O", "P", "Q", "R", "S", "T", "U", "V", "W", "X", "Y", "Z" >>

UpperChar(ch) ==
  IF \E i \in 1..Len(LowerLetters) : LowerLetters[i] = ch
    THEN UpperLetters[CHOOSE i \in 1..Len(LowerLetters) : LowerLetters[i] = ch]
    ELSE ch

\* String.prototype.toUpperCase with every character left as it is.
ToUpperCaseKeepsCase(s) == s

\* String.prototype.toUpperCase
ToUpperCase(s) == [i \in 1..Len(s) |-> UpperChar(s[i])]

RECURSIVE Join(_, _)
\* Array.prototype.join
Join(arr, sep) ==
  IF Len(arr) = 0 THEN <<>>
  ELSE IF Len(arr) = 1 THEN arr[1]
  ELSE arr[1] \o sep \o Join(Tail(arr), sep)

Digits == << "0", "1", "2", "3", "4", "5", "6", "7", "8", "9" >>

RECURSIVE NumberToString(_)
\* String(n) for a non-negative integer n.
NumberToString(n) ==
  IF n < 10 THEN << Digits[n + 1] >>
  ELSE NumberToString(n \div 10) \o << Digits[(n % 10) + 1] >>

\* ------------------------------------------------------------------------
\* CrossCorsOrigin: string | RegExp | Array<string | RegExp> | function
\* ------------------------------------------------------------------------

\* A RegExp object: a literal to find, optionally anchored at the end of the
\* input ($), with or without the g flag.  Its lastIndex is program state.
NoRegExp == [lit |-> <<>>, anchorEnd |-> FALSE, global |-> FALSE]
RegExp(lit, anchorEnd, global) ==
  [lit |-> lit, anchorEnd |-> anchorEnd, global |-> global]

OriginUndefined == [t |-> "undefined", s |-> <<>>, re |-> NoRegExp, elems |-> <<>>]
OriginString(s) == [t |-> "string", s |-> s, re |-> NoRegExp, elems |-> <<>>]
OriginRegExp(re) == [t |-> "regexp", s |-> <<>>, re |-> re, elems |-> <<>>]
OriginArray(elems) == [t |-> "array", s |-> <<>>, re |-> NoRegExp, elems |-> elems]
OriginFunction == [t |-> "function", s |-> <<>>, re |-> NoRegExp, elems |-> <<>>]

\* Elements of an array policy.
ElemString(s) == [t |-> "string", s |-> s, re |-> NoRegExp]
ElemRegExp(re) == [t |-> "regexp", s |-> <<>>, re |-> re]

\* ToBoolean of a configured origin: undefined and '' are falsy.
TruthyOrigin(o) ==
  CASE o.t = "undefined" -> FALSE
    [] o.t = "string" -> Len(o.s) > 0
    [] OTHER -> TRUE

\* The RegExp objects a policy holds, one lastIndex slot for each.
RegExpSlots(o) ==
  CASE o.t = "regexp" -> 1
    [] o.t = "array" -> Len(o.elems)
    [] OTHER -> 0

\* The pattern matches the input at 0-based position i.
MatchAt(re, str, i) ==
  /\ i + Len(re.lit) <= Len(str)
  /\ \A k \in 1..Len(re.lit) : str[i + k] = re.lit[k]
  /\ re.anchorEnd => i + Len(re.lit) = Len(str)

\* RegExp.prototype.test: the search starts at lastIndex when the g flag is
\* set (at 0 otherwise); with g, a match leaves lastIndex at the end of the
\* match and a failure resets it to 0.
RegExpTest(re, str, lastIdx) ==
  LET start == IF re.global THEN lastIdx ELSE 0
      found == {i \in start..Len(str) : MatchAt(re, str, i)}
      first == CHOOSE i \in found : \A j \in found : i <= j
  IN IF found = {}
       THEN [ok |-> FALSE, lastIndex |-> IF re.global THEN 0 ELSE lastIdx]
       ELSE [ok |-> TRUE,
             lastIndex |-> IF re.global THEN first + Len(re.lit) ELSE lastIdx]

\* The callback of ruleOrigin.some(...)
ElemTest(o, reqOrigin, lastIdx) ==
  IF o.t = "string"
    THEN [ok |-> o.s = reqOrigin, lastIndex |-> lastIdx]
    ELSE IF o.t = "regexp" THEN RegExpTest(o.re, reqOrigin, lastIdx)
    ELSE [ok |-> FALSE, lastIndex |-> lastIdx]

RECURSIVE ArraySome(_, _, _, _)
\* Array.prototype.some from element i on: stops at the first element whose
\* callback returns true; li holds the lastIndex of every element's RegExp.
ArraySome(elems, i, reqOrigin, li) ==
  IF i > Len(elems) THEN [ok |-> FALSE, lastIndex |-> li]
  ELSE LET r == ElemTest(elems[i], reqOrigin, li[i])
           li2 == [li EXCEPT ![i] = r.lastIndex]
       IN IF r.ok THEN [ok |-> TRUE, lastIndex |-> li2]
          ELSE ArraySome(elems, i + 1, reqOrigin, li2)

\* matchOrigin up to the point where it either has its answer or calls the
\* dynamic predicate: calls = TRUE means ruleOrigin(reqOrigin, req) is invoked.
matchOrigin(ruleOrigin, reqOrigin, li) ==
  IF ~TruthyOrigin(ruleOrigin)
    THEN [calls |-> FALSE, ok |-> TRUE, lastIndex |-> li]
  ELSE IF ~TruthyStr(reqOrigin)
    THEN [calls |-> FALSE, ok |-> FALSE, lastIndex |-> li]
  ELSE IF ruleOrigin.t = "string"
    THEN [calls |-> FALSE,
          ok |-> ruleOrigin.s = <<"*">> \/ ruleOrigin.s = reqOrigin.v,
          lastIndex |-> li]
  ELSE IF ruleOrigin.t = "regexp"
    THEN LET r == RegExpTest(ruleOrigin.re, reqOrigin.v, li[1])
         IN [calls |-> FALSE, ok |-> r.ok, lastIndex |-> <<r.lastIndex>>]
  ELSE IF ruleOrigin.t = "array"
    THEN LET r == ArraySome(ruleOrigin.elems, 1, reqOrigin.v, li)
         IN [calls |-> FALSE, ok |-> r.ok, lastIndex |-> r.lastIndex]
  ELSE IF ruleOrigin.t = "function"
    THEN [calls |-> TRUE, ok |-> FALSE, lastIndex |-> li]
  ELSE [calls |-> FALSE, ok |-> FALSE, lastIndex |-> li]

\* ------------------------------------------------------------------------
\* CrossCorsOptions and crosscors(options)
\* ------------------------------------------------------------------------

GET == << "G", "E", "T" >>
HEAD == << "H", "E", "A", "D" >>
PUT == << "P", "U", "T" >>
PATCH == << "P", "A", "T", "C", "H" >>
POST == << "P", "O", "S", "T" >>
DELETE == << "D", "E", "L", "E", "T", "E" >>
OPTIONS == << "O", "P", "T", "I", "O", "N", "S" >>
Star == << "*" >>
Comma == << "," >>
StrTrue == << "t", "r", "u", "e" >>

DefaultMethods == << GET, HEAD, PUT, PATCH, POST, DELETE >>
DefaultOptionsSuccessStatus == 204

\* Options with nothing set: crosscors() or crosscors({}).
NoOptions ==
  [origin |-> OriginUndefined, methods |-> NoSeq, allowedHeaders |-> NoSeq,
   exposedHeaders |-> NoSeq, credentials |-> NoBool, maxAge |-> NoNum,
   preflightContinue |-> NoBool, optionsSuccessStatus |-> NoNum, log |-> NoBool]

\* The destructuring with defaults at the head of crosscors: what the
\* returned handleCors closes over.
crosscors(options) ==
  [origin |-> IF options.origin.t = "undefined" THEN OriginString(Star)
              ELSE options.origin,
   methods |-> IF options.methods.def THEN options.methods.v ELSE DefaultMethods,
   allowedHeaders |-> options.allowedHeaders,
   exposedHeaders |-> options.exposedHeaders,
   credentials |-> IF options.credentials.def THEN options.credentials.v ELSE FALSE,
   maxAge |-> options.maxAge,
   preflightContinue |->
     IF options.preflightContinue.def THEN options.preflightContinue.v ELSE FALSE,
   optionsSuccessStatus |->
     IF options.optionsSuccessStatus.def THEN options.optionsSuccessStatus.v
     ELSE DefaultOptionsSuccessStatus,
   log |-> IF options.log.def THEN options.log.v ELSE FALSE]

\* ------------------------------------------------------------------------
\* IncomingMessage and ServerResponse
\* ------------------------------------------------------------------------

\* The parts of a request handleCors reads: headers.origin, method and
\* headers['access-control-request-headers'].
Request(origin, method, acrh) == [origin |-> origin, method |-> method, acrh |-> acrh]

\* A response nothing has touched: no header set, statusCode not assigned,
\* end() not called (ended counts the calls of end, body is what they wrote).
FreshResponse ==
  [headers |-> {}, statusCode |-> NoNum, ended |-> 0, body |-> <<>>]

\* res.setHeader(name, value): replaces the header of that name.
setHeader(res, name, value) ==
  [res EXCEPT !.headers = {h \in @ : h[1] # name} \cup {<<name, value>>}]

HasHeader(res, name) == \E h \in res.headers : h[1] = name
GetHeader(res, name) == (CHOOSE h \in res.headers : h[1] = name)[2]

\* ------------------------------------------------------------------------
\* handleCors
\* ------------------------------------------------------------------------

\* const reqMethod = req.method ? req.method.toUpperCase() : ''
reqMethodOf(req) == IF TruthyStr(req.method) THEN ToUpperCase(req.method.v) ELSE <<>>

\* Allow-origin value that always echoes the request's origin.
AllowOriginValueEcho(cfg, req) == req.origin.v

\* origin === '*' ? '*' : reqOrigin
AllowOriginValue(cfg, req) ==
  IF cfg.origin.t = "string" /\ cfg.origin.s = Star THEN Star ELSE req.origin.v

SetOriginHeaders(cfg, req, res) ==
  IF TruthyStr(req.origin)
    THEN setHeader(setHeader(res, "Access-Control-Allow-Origin",
                             AllowOriginValue(cfg, req)),
                   "Vary", << "O", "r", "i", "g", "i", "n" >>)
    ELSE res

\* Allow-headers step that prefers the request's own header to the
\* configured list.
SetAllowHeadersRequestFirst(cfg, req, res) ==
  IF TruthyStr(req.acrh)
    THEN setHeader(res, "Access-Control-Allow-Headers", req.acrh.v)
  ELSE IF cfg.allowedHeaders.def
    THEN setHeader(res, "Access-Control-Allow-Headers",
                   Join(cfg.allowedHeaders.v, Comma))
  ELSE res

\* if (allowedHeaders) ... else if (req.headers['access-control-request-headers']) ...
SetAllowHeaders(cfg, req, res) ==
  IF cfg.allowedHeaders.def
    THEN setHeader(res, "Access-Control-Allow-Headers",
                   Join(cfg.allowedHeaders.v, Comma))
  ELSE IF TruthyStr(req.acrh)
    THEN setHeader(res, "Access-Control-Allow-Headers", req.acrh.v)
  ELSE res

SetExposeHeaders(cfg, res) ==
  IF cfg.exposedHeaders.def
    THEN setHeader(res, "Access-Control-Expose-Headers",
                   Join(cfg.exposedHeaders.v, Comma))
    ELSE res

SetCredentials(cfg, res) ==
  IF cfg.credentials
    THEN setHeader(res, "Access-Control-Allow-Credentials", StrTrue)
    ELSE res

SetMaxAge(cfg, res) ==
  IF cfg.maxAge.def
    THEN setHeader(res, "Access-Control-Max-Age", NumberToString(cfg.maxAge.v))
    ELSE res

\* The "Set CORS headers" block, in the order of the source.
SetCorsHeaders(cfg, req, res) ==
  SetMaxAge(cfg,
    SetCredentials(cfg,
      SetExposeHeaders(cfg,
        SetAllowHeaders(cfg, req,
          setHeader(SetOriginHeaders(cfg, req, res),
                    "Access-Control-Allow-Methods", Join(cfg.methods, Comma))))))

\* What console receives from one call: nothing, a warn or an info line.
LogOf(cfg, req, allowed) ==
  IF cfg.log /\ TruthyStr(req.origin)
    THEN IF allowed THEN "info" ELSE "warn"
    ELSE "none"

\* Deny path that has already written the allow-methods header.
DenyLeavesHeader(cfg, req, res) ==
  [res |-> setHeader(res, "Access-Control-Allow-Methods", Join(cfg.methods, Comma)),
   ret |-> FALSE, log |-> LogOf(cfg, req, FALSE)]

\* if (!(await matchOrigin(...))) { ...; return false; }
Deny(cfg, req, res) ==
  [res |-> res, ret |-> FALSE, log |-> LogOf(cfg, req, FALSE)]

\* The preflight branch at the end of handleCors, applied to the response
\* that already carries the CORS headers.
Preflight(cfg, req, res) ==
  IF reqMethodOf(req) = OPTIONS
    THEN IF cfg.preflightContinue
           THEN [res |-> res, ret |-> FALSE]
           ELSE [res |-> [res EXCEPT !.statusCode = SomeNum(cfg.optionsSuccessStatus),
                                     !.ended = @ + 1],
                 ret |-> TRUE]
    ELSE [res |-> res, ret |-> FALSE]

\* handleCors from the point where the await on matchOrigin has produced
\* `matched`, up to its return.
AfterAwait(cfg, req, matched, res) ==
  IF ~Truthy(matched)
    THEN Deny(cfg, req, res)
    ELSE LET p == Preflight(cfg, req, SetCorsHeaders(cfg, req, res))
         IN [res |-> p.res, ret |-> p.ret, log |-> LogOf(cfg, req, TRUE)]

\* ------------------------------------------------------------------------
\* Inputs
\* ------------------------------------------------------------------------

OriginA == << "a", ".", "t" >>
OriginB == << "b", ".", "t" >>

\* /a\./, /\.t$/g and /b\./
ReA == RegExp(<< "a", "." >>, FALSE, FALSE)
ReSuffixG == RegExp(<< ".", "t" >>, TRUE, TRUE)
ReB == RegExp(<< "b", "." >>, FALSE, FALSE)

OriginPolicies ==
  { OriginUndefined, OriginString(Star), OriginString(<<>>), OriginString(OriginA),
    OriginRegExp(ReA), OriginRegExp(ReSuffixG),
    OriginArray(<<>>), OriginArray(<< ElemString(Star) >>),
    OriginArray(<< ElemString(OriginA) >>),
    OriginArray(<< ElemRegExp(ReB), ElemString(OriginA) >>),
    OriginArray(<< ElemRegExp(ReSuffixG), ElemString(OriginB) >>),
    OriginFunction }

\* Every option other than origin set, preflight passed on to the host.
OptionsFull ==
  [NoOptions EXCEPT
     !.methods = SomeSeq(<< GET, POST >>),
     !.allowedHeaders = SomeSeq(<< << "h" >>, << "k" >> >>),
     !.exposedHeaders = SomeSeq(<< << "e" >> >>),
     !.credentials = SomeBool(TRUE),
     !.maxAge = SomeNum(3600),
     !.preflightContinue = SomeBool(TRUE),
     !.optionsSuccessStatus = SomeNum(200),
     !.log = SomeBool(TRUE)]

\* Empty lists and zero: values that are set although they look empty.
OptionsEdge ==
  [NoOptions EXCEPT
     !.allowedHeaders = SomeSeq(<<>>),
     !.credentials = SomeBool(FALSE),
     !.maxAge = SomeNum(0),
     !.preflightContinue = SomeBool(FALSE),
     !.optionsSuccessStatus = SomeNum(200),
     !.log = SomeBool(TRUE)]

OptionsSet ==
  { [o EXCEPT !.origin = p] : o \in {NoOptions, OptionsFull, OptionsEdge},
                              p \in OriginPolicies }

RequestOrigins == { NoSeq, SomeSeq(<<>>), SomeSeq(OriginA), SomeSeq(OriginB) }

\* A request's method together with its Access-Control-Request-Headers:
\* browsers send that header on preflights only.
RequestShapes ==
  { << SomeSeq(GET), NoSeq >>,
    << SomeSeq(OPTIONS), SomeSeq(<<>>) >>,
    << SomeSeq(<< "o", "p", "t", "i", "o", "n", "s" >>), SomeSeq(<< "x" >>) >> }

Requests == { Request(o, sh[1], sh[2]) : o \in RequestOrigins, sh \in RequestShapes }

\* What a dynamic predicate may return or resolve to.
PredicateValues ==
  { JsBool(TRUE), JsBool(FALSE), JsUndefined, JsNumber(1) }

\* ------------------------------------------------------------------------
\* State
\* ------------------------------------------------------------------------

Calls == 1..MaxCalls

VARIABLES
  options,    \* the options crosscors was called with
  lastIndex,  \* lastIndex of each RegExp object the origin policy holds
  pc,         \* per call: idle, matching, predicate, returned, rejected
  req,        \* per call: its request
  fault,      \* per call: how its dynamic predicate failed: none, threw, rejected
  matched,    \* per call: the value the await on matchOrigin produced
  res,        \* per call: its response
  ret,        \* per call: what the promise of handleCors settled with
  console     \* per call: the line it wrote to console

vars == << options, lastIndex, pc, req, fault, matched, res, ret, console >>

cfg == crosscors(options)

NoRequest == Request(NoSeq, NoSeq, NoSeq)

Init ==
  /\ options \in OptionsSet
  /\ lastIndex = [i \in 1..RegExpSlots(crosscors(options).origin) |-> 0]
  /\ pc = [c \in Calls |-> "idle"]
  /\ req = [c \in Calls |-> NoRequest]
  /\ fault = [c \in Calls |-> "none"]
  /\ matched = [c \in Calls |-> JsUndefined]
  /\ res = [c \in Calls |-> FreshResponse]
  /\ ret = [c \in Calls |-> "pending"]
  /\ console = [c \in Calls |-> "none"]

\* The host calls handleCors in the order the requests arrive.
CanInvoke(c) ==
  /\ pc[c] = "idle"
  /\ \A d \in Calls : d < c => pc[d] # "idle"

\* handleCors(req, res) up to its await, matchOrigin answering without
\* calling a predicate.
Invoke(c) ==
  /\ CanInvoke(c)
  /\ \E r \in Requests :
       LET m == matchOrigin(cfg.origin, r.origin, lastIndex)
       IN /\ ~m.calls
          /\ req' = [req EXCEPT ![c] = r]
          /\ lastIndex' = m.lastIndex
          /\ matched' = [matched EXCEPT ![c] = JsBool(m.ok)]
          /\ pc' = [pc EXCEPT ![c] = "matching"]
  /\ UNCHANGED << options, fault, res, ret, console >>

\* handleCors up to its await, the predicate returning a value that
\* matchOrigin wraps in Promise.resolve.
InvokePredicateReturns(c) ==
  /\ CanInvoke(c)
  /\ \E r \in Requests, v \in PredicateValues :
       /\ matchOrigin(cfg.origin, r.origin, lastIndex).calls
       /\ req' = [req EXCEPT ![c] = r]
       /\ matched' = [matched EXCEPT ![c] = v]
  /\ pc' = [pc EXCEPT ![c] = "matching"]
  /\ UNCHANGED << options, lastIndex, fault, res, ret, console >>

\* handleCors up to its await, the predicate returning a promise.
InvokePredicatePromise(c) ==
  /\ CanInvoke(c)
  /\ \E r \in Requests :
       /\ matchOrigin(cfg.origin, r.origin, lastIndex).calls
       /\ req' = [req EXCEPT ![c] = r]
  /\ pc' = [pc EXCEPT ![c] = "predicate"]
  /\ UNCHANGED << options, lastIndex, fault, matched, res, ret, console >>

\* The predicate throws: matchOrigin has no try, handleCors has none, so
\* the async function's promise rejects.
InvokePredicateThrows(c) ==
  /\ CanInvoke(c)
  /\ \E r \in Requests :
       /\ matchOrigin(cfg.origin, r.origin, lastIndex).calls
       /\ req' = [req EXCEPT ![c] = r]
  /\ fault' = [fault EXCEPT ![c] = "threw"]
  /\ pc' = [pc EXCEPT ![c] = "rejected"]
  /\ ret' = [ret EXCEPT ![c] = "rejected"]
  /\ UNCHANGED << options, lastIndex, matched, res, console >>

\* The predicate's promise resolves.
PromiseResolves(c) ==
  /\ pc[c] = "predicate"
  /\ \E v \in PredicateValues : matched' = [matched EXCEPT ![c] = v]
  /\ pc' = [pc EXCEPT ![c] = "matching"]
  /\ UNCHANGED << options, lastIndex, req, fault, res, ret, console >>

\* The predicate's promise rejects: the await throws inside handleCors.
PromiseRejects(c) ==
  /\ pc[c] = "predicate"
  /\ fault' = [fault EXCEPT ![c] = "rejected"]
  /\ pc' = [pc EXCEPT ![c] = "rejected"]
  /\ ret' = [ret EXCEPT ![c] = "rejected"]
  /\ UNCHANGED << options, lastIndex, req, matched, res, console >>

\* handleCors from the resumption after its await to its return.
Resume(c) ==
  /\ pc[c] = "matching"
  /\ LET a == AfterAwait(cfg, req[c], matched[c], res[c])
     IN /\ res' = [res EXCEPT ![c] = a.res]
        /\ ret' = [ret EXCEPT ![c] = IF a.ret THEN "true" ELSE "false"]
        /\ console' = [console EXCEPT ![c] = a.log]
  /\ pc' = [pc EXCEPT ![c] = "returned"]
  /\ UNCHANGED << options, lastIndex, req, fault, matched >>

Next ==
  \E c \in Calls :
    \/ Invoke(c)
    \/ InvokePredicateReturns(c)
    \/ InvokePredicatePromise(c)
    \/ InvokePredicateThrows(c)
    \/ PromiseResolves(c)
    \/ PromiseRejects(c)
    \/ Resume(c)

Spec == Init /\ [][Next]_vars

\* ------------------------------------------------------------------------
\* Properties
\* ------------------------------------------------------------------------

Returned(c) == pc[c] = "returned"
AllowedCall(c) == Returned(c) /\ Truthy(matched[c])
DeniedCall(c) == Returned(c) /\ ~Truthy(matched[c])
Untouched(c) == res[c] = FreshResponse

\* The request carries an Origin header with a value (handleCors reads an
\* empty value as no origin).
CarriesOrigin(c) == req[c].origin.def /\ req[c].origin.v # <<>>

\* The origin option is absent or the string '*'.
WildcardPolicy ==
  \/ options.origin.t = "undefined"
  \/ options.origin.t = "string" /\ options.origin.s = << "*" >>

\* The method is OPTIONS in any letter case.
IsOptionsMethod(m) ==
  /\ m.def
  /\ Len(m.v) = 7
  /\ \A i \in 1..7 :
       m.v[i] \in { << "O", "P", "T", "I", "O", "N", "S" >>[i],
                    << "o", "p", "t", "i", "o", "n", "s" >>[i] }

\* C1: a response is untouched (no header, statusCode not assigned, end not
\* called) in every state of its call before the origin match has resolved
\* to allow, including while the call is suspended on a dynamic predicate
\* and after the predicate has failed, and after every call that ends in
\* deny; a denied call returns false.
C1_ResponseUntouchedUnlessAllowed ==
  \A c \in Calls :
    /\ pc[c] \in {"idle", "matching", "predicate", "rejected"} => Untouched(c)
    /\ DeniedCall(c) => Untouched(c) /\ ret[c] = "false"

\* A call is suspended on its predicate's promise while another call, whose
\* request carried an origin, has been denied.
C1_Witness ==
  \E c, d \in Calls :
    /\ pc[c] = "predicate"
    /\ DeniedCall(d) /\ CarriesOrigin(d)

\* C2: when the dynamic predicate throws or its promise rejects, the promise
\* of handleCors resolves to false with the response untouched; it never
\* rejects.
C2_PredicateFailureIsDenial ==
  \A c \in Calls :
    fault[c] # "none" => ret[c] = "false" /\ Untouched(c)

\* C3: with no origin option, the origin match is true for every request,
\* with or without an Origin header, and the call sets
\* Access-Control-Allow-Methods.
C3_NoOriginOptionAllowsEveryRequest ==
  options.origin.t = "undefined" =>
    \A c \in Calls :
      /\ pc[c] \in {"matching", "returned"} => Truthy(matched[c])
      /\ Returned(c) => HasHeader(res[c], "Access-Control-Allow-Methods")

\* The status a terminated preflight gets: the option, or 204 without it.
ExpectedStatus ==
  IF options.optionsSuccessStatus.def THEN options.optionsSuccessStatus.v ELSE 204

\* The call is allowed, its method is OPTIONS after upper-casing and
\* preflightContinue is not set to true.
TerminatesPreflight(c) ==
  /\ AllowedCall(c)
  /\ IsOptionsMethod(req[c].method)
  /\ ~(options.preflightContinue.def /\ options.preflightContinue.v)

\* C4: handleCors returns true exactly when the origin is allowed, the
\* method is OPTIONS after upper-casing and preflightContinue is false; in
\* that case statusCode is optionsSuccessStatus (204 by default) and end()
\* was called once with no body; every other call that returns (deny,
\* allowed non-OPTIONS, allowed OPTIONS passed through) returns false, and
\* in no other state of any call is statusCode assigned or end() called.
C4_TrueExactlyOnTerminatedPreflight ==
  \A c \in Calls :
    IF TerminatesPreflight(c)
      THEN /\ ret[c] = "true"
           /\ res[c].statusCode = SomeNum(ExpectedStatus)
           /\ res[c].ended = 1
           /\ res[c].body = <<>>
      ELSE /\ ret[c] # "true"
           /\ Returned(c) => ret[c] = "false"
           /\ res[c].statusCode = NoNum
           /\ res[c].ended = 0

\* A preflight sent with a lower-case method was terminated with the
\* default status.
C4_Witness ==
  \E c \in Calls :
    /\ ret[c] = "true"
    /\ req[c].method = SomeSeq(<< "o", "p", "t", "i", "o", "n", "s" >>)
    /\ res[c].statusCode = SomeNum(204)
    /\ res[c].ended = 1

\* C5: on an allowed request that carries an origin, Access-Control-Allow-
\* Origin is "*" under the wildcard policy (absent or '*') and the request's
\* origin otherwise, and Vary is "Origin"; on an allowed request without an
\* origin neither is set; Vary is set in exactly the calls that set
\* Access-Control-Allow-Origin.
C5_AllowOriginAndVary ==
  \A c \in Calls :
    /\ HasHeader(res[c], "Vary") <=> HasHeader(res[c], "Access-Control-Allow-Origin")
    /\ AllowedCall(c) =>
         IF CarriesOrigin(c)
           THEN /\ HasHeader(res[c], "Access-Control-Allow-Origin")
                /\ GetHeader(res[c], "Access-Control-Allow-Origin") =
                     (IF WildcardPolicy THEN << "*" >> ELSE req[c].origin.v)
                /\ HasHeader(res[c], "Vary")
                /\ GetHeader(res[c], "Vary") = << "O", "r", "i", "g", "i", "n" >>
           ELSE ~HasHeader(res[c], "Access-Control-Allow-Origin")

\* With no origin option, a request from a.t was allowed and got "*" with
\* Vary: Origin.
C5_Witness ==
  /\ options.origin.t = "undefined"
  /\ \E c \in Calls :
       /\ AllowedCall(c)
       /\ req[c].origin = SomeSeq(<< "a", ".", "t" >>)
       /\ GetHeader(res[c], "Access-Control-Allow-Origin") = << "*" >>
       /\ HasHeader(res[c], "Vary")

\* Two calls are equivalent: the same request and, under a dynamic
\* predicate, the same answer of the predicate.
EquivalentCalls(c, d) ==
  /\ req[c] = req[d]
  /\ matchOrigin(cfg.origin, req[c].origin, lastIndex).calls =>
       matched[c] = matched[d]

\* C6: two calls of the same handleCors on equivalent requests, each with a
\* fresh response, return the same value and leave the same headers.
C6_Idempotent ==
  \A c, d \in Calls :
    Returned(c) /\ Returned(d) /\ EquivalentCalls(c, d) =>
      /\ ret[c] = ret[d]
      /\ res[c].headers = res[d].headers

\* A single element of a list policy matches the origin: a string element
\* that is "*" or the origin itself, a pattern that matches the origin.
ElementMatches(e, origin) ==
  IF e.t = "string"
    THEN e.s = << "*" >> \/ e.s = origin
    ELSE \E i \in 0..Len(origin) : MatchAt(e.re, origin, i)

\* C7: for a list policy and a request with an origin, the match is true
\* iff some element of the list matches under the single-element rules, in
\* whatever order the elements are, and false for the empty list.
C7_ListMatchesIffSomeElementMatches ==
  \A c \in Calls :
    ( /\ options.origin.t = "array"
      /\ pc[c] \in {"matching", "returned"}
      /\ CarriesOrigin(c) ) =>
      matched[c] =
        JsBool(\E i \in 1..Len(options.origin.elems) :
                 ElementMatches(options.origin.elems[i], req[c].origin.v))

\* C8: under a dynamic predicate, a request with an origin whose predicate
\* returned or resolved to anything but the boolean true is denied:
\* handleCors returns false and sets no header.
C8_OnlyTrueAllows ==
  \A c \in Calls :
    ( /\ options.origin.t = "function"
      /\ Returned(c)
      /\ CarriesOrigin(c)
      /\ matched[c] # JsBool(TRUE) ) =>
      ret[c] = "false" /\ res[c].headers = {}

\* C9: on an allowed request, Access-Control-Allow-Headers is the configured
\* allowedHeaders joined by commas whenever that option is set (whatever the
\* request asks for); without the option it is the request's
\* Access-Control-Request-Headers value verbatim; without either it is not
\* set.
C9_AllowHeaders ==
  \A c \in Calls :
    AllowedCall(c) =>
      IF options.allowedHeaders.def
        THEN /\ HasHeader(res[c], "Access-Control-Allow-Headers")
             /\ GetHeader(res[c], "Access-Control-Allow-Headers") =
                  Join(options.allowedHeaders.v, << "," >>)
      ELSE IF req[c].acrh.def /\ req[c].acrh.v # <<>>
        THEN /\ HasHeader(res[c], "Access-Control-Allow-Headers")
             /\ GetHeader(res[c], "Access-Control-Allow-Headers") = req[c].acrh.v
      ELSE ~HasHeader(res[c], "Access-Control-Allow-Headers")

\* allowedHeaders is ['h', 'k'] and the request asked for "x": the response
\* says "h,k".
C9_Witness ==
  \E c \in Calls :
    /\ AllowedCall(c)
    /\ options.allowedHeaders = SomeSeq(<< << "h" >>, << "k" >> >>)
    /\ req[c].acrh = SomeSeq(<< "x" >>)
    /\ GetHeader(res[c], "Access-Control-Allow-Headers") = << "h", ",", "k" >>

\* What a call would have returned and written had it been the only call
\* this handleCors ever got (for a dynamic predicate: with the same answer).
Alone(c) ==
  LET fresh == [i \in 1..RegExpSlots(cfg.origin) |-> 0]
      m == matchOrigin(cfg.origin, req[c].origin, fresh)
  IN AfterAwait(cfg, req[c], IF m.calls THEN matched[c] ELSE JsBool(m.ok),
                FreshResponse)

\* C10: whatever the interleaving of the calls, each returned call has the
\* return value and the response it would have had alone.
C10_CallsIndependent ==
  \A c \in Calls :
    Returned(c) =>
      /\ ret[c] = (IF Alone(c).ret THEN "true" ELSE "false")
      /\ res[c] = Alone(c).res

====
